---- MODULE Spec2Model ----
(***************************************************************************)
(* Model of transcriber.py: the WhisperWorker thread (QThread.run) and the *)
(* TranscriberApp window (the UI thread's handlers), with the Qt event     *)
(* queue that carries the worker's signals to the UI thread and the file   *)
(* system both threads look at.                                            *)
(*                                                                         *)
(* Paths and messages are sequences of text fragments; "/" and "." are     *)
(* fragments of their own, so that basename and splitext are computed.     *)
(***************************************************************************)
EXTENDS Integers, Sequences, FiniteSets, TLC

\* ------------------------------------------------------------------ bounds
\* number of accepted starts (WhisperWorker objects ever created) explored
MaxJobs == 2

\* ------------------------------------------------------- inputs of the model
\* the text of an empty QLineEdit / a cancelled file dialog
EmptyPath == <<>>

\* the audio file the user can pick: its directory has a dot, its name an
\* extension
SamplePath == <<"d", ".", "v", "/", "sample", ".", "wav">>

AudioPaths == {SamplePath}

\* transcripts the recognition engine may return (result["text"])
Texts == {"", "hello world"}

\* messages of the exceptions load_model / transcribe / open / write may raise
ExcMsgs == {"disk full", "ffmpeg not found"}

\* ---------------------------------------------------------------- program
\* items of model_combo
ModelNames == {"base", "small", "medium", "large-v2"}

\* model_combo.setCurrentText("medium")
DefaultModel == "medium"

Max(S) == CHOOSE x \in S : \A y \in S : y <= x

\* str.rfind, 1-based, 0 when absent
rfind(p, c) ==
    LET I == {i \in 1..Len(p) : p[i] = c}
    IN  IF I = {} THEN 0 ELSE Max(I)

\* os.path.basename (posixpath)
basename(p) == SubSeq(p, rfind(p, "/") + 1, Len(p))

\* os.path.splitext(p)[0] (genericpath._splitext): the extension starts at the
\* last dot after the last separator, unless only dots precede it in the name
splitext_root(p) ==
    LET sepIndex == rfind(p, "/")
        dotIndex == rfind(p, ".")
    IN  IF /\ dotIndex > sepIndex
           /\ \E i \in (sepIndex + 1)..(dotIndex - 1) : p[i] # "."
        THEN SubSeq(p, 1, dotIndex - 1)
        ELSE p

\* output_filename with the extension left in the base name
output_filename_keeps_ext(audio_path, model_name) ==
    basename(audio_path) \o <<"_", model_name, "_transcript.txt">>

\* base_name and output_filename of WhisperWorker.run
base_name(audio_path) == splitext_root(basename(audio_path))

output_filename(audio_path, model_name) ==
    base_name(audio_path) \o <<"_", model_name, "_transcript.txt">>

OutputNames ==
    {output_filename(p, m) : p \in AudioPaths, m \in ModelNames}

\* the messages the worker emits
NotFoundMessage(audio_path) ==
    <<"Audio file not found at '">> \o audio_path \o <<"'.">>

StartedMessage(model_name) ==
    <<"Loading Whisper model: ", model_name, "...">>

ProgressMessage ==
    <<"Model loaded successfully. Running on device: ", "<device>",
      ". Starting transcription...">>

SummaryMessage(name, full_transcript) ==
    <<"Transcription complete in ", "<elapsed_time:.2f>", " seconds.\n",
      "Result saved to: ">> \o name \o
    <<"\n\n", "Full Transcript:\n", full_transcript>>

\* the error text without the exception's own message
ErrorMessage_generic(e) ==
    <<"An unexpected error occurred",
      ". Check FFmpeg installation and file permissions.">>

ErrorMessage(e) ==
    <<"An unexpected error occurred: ", e,
      ". Check FFmpeg installation and file permissions.">>

NoExc == [stage |-> "none", msg |-> ""]

\* a WhisperWorker that has not been constructed yet
NoWorker ==
    [audio_path |-> EmptyPath, model_name |-> "", pc |-> "none",
     emitted |-> <<>>, text |-> "", exc |-> NoExc, wrote |-> FALSE,
     handled |-> FALSE]

\* the WhisperWorker object after its thread has finished and the Shell has
\* dropped its reference
Gone == [NoWorker EXCEPT !.pc = "gone"]

\* a WhisperWorker whose terminal notification the Shell has handled while
\* its thread has not yet returned from run; nothing reads its fields again
Detached == [NoWorker EXCEPT !.pc = "return", !.handled = TRUE]

NoFile == [exists |-> FALSE, data |-> ""]

NoDialog == [kind |-> "none", w |-> 0]

VARIABLES
    path_input,     \* self.path_input.text()
    model_combo,    \* self.model_combo.currentText()
    ui,             \* enabled flags, button text, progress bar visibility
    status_label,   \* self.status_label.text()
    output_text,    \* self.output_text contents
    worker,         \* self.worker: 0 for None, else the job's index
    dialog,         \* the modal QMessageBox that is open, if any
    workers,        \* the WhisperWorker threads, by job index
    queue,          \* queued signal deliveries posted to the UI thread
    exists,         \* os.path.exists for the audio paths
    files           \* the transcript files in the working directory

vars == <<path_input, model_combo, ui, status_label, output_text, worker,
          dialog, workers, queue, exists, files>>

uivars == <<path_input, model_combo, ui, status_label, output_text, worker,
            dialog>>

Jobs == 1..MaxJobs

njobs == Cardinality({w \in Jobs : workers[w].pc # "none"})

\* update_ui_state that leaves the start button enabled
update_ui_state_start_enabled(is_ready) ==
    [browse_btn     |-> is_ready,
     path_input     |-> is_ready,
     model_combo    |-> is_ready,
     transcribe_btn |-> TRUE,
     btn_text       |-> IF is_ready THEN "Start Transcription"
                                    ELSE "Processing...",
     progress_bar   |-> ~is_ready]

\* update_ui_state that forgets the path field
update_ui_state_path_enabled(is_ready) ==
    [browse_btn     |-> is_ready,
     path_input     |-> TRUE,
     model_combo    |-> is_ready,
     transcribe_btn |-> is_ready,
     btn_text       |-> IF is_ready THEN "Start Transcription"
                                    ELSE "Processing...",
     progress_bar   |-> ~is_ready]

\* TranscriberApp.update_ui_state
update_ui_state(is_ready) ==
    [browse_btn     |-> is_ready,
     path_input     |-> is_ready,
     model_combo    |-> is_ready,
     transcribe_btn |-> is_ready,
     btn_text       |-> IF is_ready THEN "Start Transcription"
                                    ELSE "Processing...",
     progress_bar   |-> ~is_ready]

Init ==
    /\ path_input = EmptyPath
    /\ model_combo = DefaultModel
    /\ ui = update_ui_state(TRUE)
    /\ status_label = <<"Ready to transcribe.">>
    /\ output_text = <<"Prerequisite">>
    /\ worker = 0
    /\ dialog = NoDialog
    /\ workers = [w \in Jobs |-> NoWorker]
    /\ queue = <<>>
    /\ exists \in [AudioPaths -> BOOLEAN]
    /\ files = [n \in OutputNames |-> NoFile]

\* ------------------------------------------------------------ file system
\* the environment removes or creates an audio file
remove_file ==
    \E p \in AudioPaths :
        /\ exists[p]
        /\ exists' = [exists EXCEPT ![p] = FALSE]
        /\ UNCHANGED <<uivars, workers, queue, files>>

create_file ==
    \E p \in AudioPaths :
        /\ ~exists[p]
        /\ exists' = [exists EXCEPT ![p] = TRUE]
        /\ UNCHANGED <<uivars, workers, queue, files>>

\* -------------------------------------------------------------- UI thread
\* a click reaches a widget only if it is enabled and no modal box is open
Clickable(enabled) == enabled /\ dialog.kind = "none"

\* TranscriberApp.select_audio_file: the dialog returns an existing file, or
\* "" when cancelled
select_audio_file ==
    /\ Clickable(ui.browse_btn)
    /\ \E filepath \in {EmptyPath} \cup {p \in AudioPaths : exists[p]} :
           path_input' = IF filepath # EmptyPath THEN filepath ELSE path_input
    /\ UNCHANGED <<model_combo, ui, status_label, output_text, worker, dialog,
                   workers, queue, exists, files>>

\* the user picks another item of model_combo
select_model ==
    /\ Clickable(ui.model_combo)
    /\ \E m \in ModelNames \ {model_combo} : model_combo' = m
    /\ UNCHANGED <<path_input, ui, status_label, output_text, worker, dialog,
                   workers, queue, exists, files>>

\* the test without the os.path.exists half
InvalidPath_empty_only(audio_path) ==
    audio_path = EmptyPath

\* the test of start_transcription: not audio_path or not os.path.exists(..)
InvalidPath(audio_path) ==
    audio_path = EmptyPath \/ ~exists[audio_path]

\* WhisperWorker.__init__ followed by QThread.start
NewWorker(audio_path, model_name) ==
    [NoWorker EXCEPT !.audio_path = audio_path, !.model_name = model_name,
                     !.pc = "check"]

\* TranscriberApp.start_transcription, on a click of transcribe_btn
start_transcription ==
    /\ Clickable(ui.transcribe_btn)
    /\ LET audio_path == path_input
           model_name == model_combo
       IN  IF InvalidPath(audio_path)
           THEN /\ dialog' = [kind |-> "warning", w |-> 0]
                /\ UNCHANGED <<path_input, model_combo, ui, status_label,
                               output_text, worker, workers, queue, exists,
                               files>>
           ELSE /\ njobs < MaxJobs
                /\ ui' = update_ui_state(FALSE)
                /\ output_text' = <<>>
                /\ status_label' = <<"Starting process...">>
                /\ worker' = njobs + 1
                /\ workers' = [workers EXCEPT
                                 ![njobs + 1] = NewWorker(audio_path, model_name)]
                /\ UNCHANGED <<path_input, model_combo, dialog, queue, exists,
                               files>>

\* the user closes the "Input Error" box; start_transcription returns
dismiss_warning ==
    /\ dialog.kind = "warning"
    /\ dialog' = NoDialog
    /\ UNCHANGED <<path_input, model_combo, ui, status_label, output_text,
                   worker, workers, queue, exists, files>>

\* self.worker = None: the Shell has handled the terminal notification; the
\* object goes away once its thread has finished too
Release(wk) ==
    IF wk.pc = "finished" THEN Gone ELSE Detached

\* TranscriberApp.handle_started
handle_started(message) ==
    /\ status_label' = message
    /\ UNCHANGED <<ui, output_text, worker, dialog, workers>>

\* TranscriberApp.handle_progress
handle_progress(message) ==
    /\ status_label' = message
    /\ UNCHANGED <<ui, output_text, worker, dialog, workers>>

\* handle_complete that neither restores the controls nor clears self.worker
handle_complete_stays_busy(w, summary) ==
    /\ output_text' = summary
    /\ status_label' = <<"Transcription Finished! Output saved to disk.">>
    /\ workers' = [workers EXCEPT ![w] = Release(@)]
    /\ UNCHANGED <<ui, worker, dialog>>

\* TranscriberApp.handle_complete
handle_complete(w, summary) ==
    /\ output_text' = summary
    /\ status_label' = <<"Transcription Finished! Output saved to disk.">>
    /\ ui' = update_ui_state(TRUE)
    /\ worker' = 0
    /\ workers' = [workers EXCEPT ![w] = Release(@)]
    /\ UNCHANGED dialog

\* TranscriberApp.handle_error up to QMessageBox.critical, which blocks
handle_error(w, message) ==
    /\ status_label' = <<"ERROR: ">> \o message
    /\ dialog' = [kind |-> "critical", w |-> w]
    /\ UNCHANGED <<ui, output_text, worker, workers>>

\* the UI event loop delivers the oldest queued signal to its slot
deliver ==
    /\ queue # <<>>
    /\ dialog.kind = "none"
    /\ LET ev == Head(queue)
       IN  CASE ev.kind = "started"  -> handle_started(ev.msg)
             [] ev.kind = "progress" -> handle_progress(ev.msg)
             [] ev.kind = "complete" -> handle_complete(ev.w, ev.msg)
             [] ev.kind = "error"    -> handle_error(ev.w, ev.msg)
    /\ queue' = Tail(queue)
    /\ UNCHANGED <<path_input, model_combo, exists, files>>

\* the rest of handle_error without self.worker = None
dismiss_critical_keeps_worker ==
    /\ dialog.kind = "critical"
    /\ dialog' = NoDialog
    /\ ui' = update_ui_state(TRUE)
    /\ workers' = [workers EXCEPT ![dialog.w] = Release(@)]
    /\ UNCHANGED <<path_input, model_combo, status_label, output_text, worker,
                   queue, exists, files>>

\* the user closes the "Transcription Error" box; the rest of handle_error
dismiss_critical ==
    /\ dialog.kind = "critical"
    /\ dialog' = NoDialog
    /\ ui' = update_ui_state(TRUE)
    /\ worker' = 0
    /\ workers' = [workers EXCEPT ![dialog.w] = Release(@)]
    /\ UNCHANGED <<path_input, model_combo, status_label, output_text, queue,
                   exists, files>>

\* ---------------------------------------------------------- worker thread
\* signal.emit from the worker thread: a queued call posted to the UI thread
Emit(w, wk, kind, msg) ==
    /\ workers' = [workers EXCEPT
                     ![w] = [wk EXCEPT !.emitted =
                                Append(@, [kind |-> kind, msg |-> msg])]]
    /\ queue' = Append(queue, [w |-> w, kind |-> kind, msg |-> msg])

\* the except clause of run: emit transcription_error with the exception text
Raise(w, stage, e) ==
    Emit(w, [workers[w] EXCEPT !.exc = [stage |-> stage, msg |-> e],
                               !.pc = "return"],
         "error", ErrorMessage(e))

\* run without the return after the not-found error
run_check_noreturn(w) ==
    /\ workers[w].pc = "check"
    /\ IF ~exists[workers[w].audio_path]
       THEN Emit(w, [workers[w] EXCEPT !.pc = "load"], "error",
                 NotFoundMessage(workers[w].audio_path))
       ELSE Emit(w, [workers[w] EXCEPT !.pc = "load"], "started",
                 StartedMessage(workers[w].model_name))
    /\ UNCHANGED <<uivars, exists, files>>

\* run without the started signal
run_check_silent(w) ==
    /\ workers[w].pc = "check"
    /\ IF ~exists[workers[w].audio_path]
       THEN Emit(w, [workers[w] EXCEPT !.pc = "return"], "error",
                 NotFoundMessage(workers[w].audio_path))
       ELSE /\ workers' = [workers EXCEPT ![w].pc = "load"]
            /\ UNCHANGED queue
    /\ UNCHANGED <<uivars, exists, files>>

\* run, the existence check and the started signal
run_check(w) ==
    /\ workers[w].pc = "check"
    /\ IF ~exists[workers[w].audio_path]
       THEN Emit(w, [workers[w] EXCEPT !.pc = "return"], "error",
                 NotFoundMessage(workers[w].audio_path))
       ELSE Emit(w, [workers[w] EXCEPT !.pc = "load"], "started",
                 StartedMessage(workers[w].model_name))
    /\ UNCHANGED <<uivars, exists, files>>

\* run, whisper.load_model and the progress signal
run_load(w) ==
    /\ workers[w].pc = "load"
    /\ \/ Emit(w, [workers[w] EXCEPT !.pc = "transcribe"], "progress",
               ProgressMessage)
       \/ \E e \in ExcMsgs : Raise(w, "load", e)
    /\ UNCHANGED <<uivars, exists, files>>

\* run, model.transcribe and result["text"]
run_transcribe(w) ==
    /\ workers[w].pc = "transcribe"
    /\ \/ /\ \E t \in Texts :
                workers' = [workers EXCEPT ![w].text = t, ![w].pc = "write"]
          /\ UNCHANGED queue
       \/ \E e \in ExcMsgs : Raise(w, "transcribe", e)
    /\ UNCHANGED <<uivars, exists, files>>

\* run, open(output_filename, "w") and f.write(full_transcript)
run_write(w) ==
    /\ workers[w].pc = "write"
    /\ LET name == output_filename(workers[w].audio_path,
                                   workers[w].model_name)
       IN  \/ /\ files' = [files EXCEPT
                             ![name] = [exists |-> TRUE,
                                        data |-> workers[w].text]]
              /\ workers' = [workers EXCEPT ![w].wrote = TRUE,
                                            ![w].pc = "emit_complete"]
              /\ UNCHANGED queue
           \/ /\ \E e \in ExcMsgs : Raise(w, "open", e)
              /\ UNCHANGED files
    /\ UNCHANGED <<uivars, exists>>

\* run, the complete signal
run_emit_complete(w) ==
    /\ workers[w].pc = "emit_complete"
    /\ Emit(w, [workers[w] EXCEPT !.pc = "return"], "complete",
            SummaryMessage(output_filename(workers[w].audio_path,
                                           workers[w].model_name),
                           workers[w].text))
    /\ UNCHANGED <<uivars, exists, files>>

\* run returns and the thread finishes
run_return(w) ==
    /\ workers[w].pc = "return"
    /\ workers' = [workers EXCEPT
                     ![w] = IF @.handled THEN Gone
                                         ELSE [@ EXCEPT !.pc = "finished"]]
    /\ UNCHANGED <<uivars, queue, exists, files>>

run(w) ==
    \/ run_check(w)
    \/ run_load(w)
    \/ run_transcribe(w)
    \/ run_write(w)
    \/ run_emit_complete(w)
    \/ run_return(w)

Next ==
    \/ select_audio_file
    \/ select_model
    \/ start_transcription
    \/ dismiss_warning
    \/ deliver
    \/ dismiss_critical
    \/ \E w \in Jobs : run(w)
    \/ remove_file
    \/ create_file

Spec == Init /\ [][Next]_vars

\* the worker thread keeps running and the UI event loop keeps delivering
\* queued signals; nothing obliges the user to act
FairSpec ==
    /\ Spec
    /\ \A w \in Jobs : WF_vars(run(w))
    /\ WF_vars(deliver)

\* ------------------------------------------------------------- properties
\* no signal is pending while a modal box is open, so the nested event loop
\* of QMessageBox never runs a slot
NoDeliveryInDialog == dialog.kind # "none" => queue = <<>>

AllEnabled ==
    ui.browse_btn /\ ui.path_input /\ ui.model_combo /\ ui.transcribe_btn

AllDisabled ==
    ~ui.browse_btn /\ ~ui.path_input /\ ~ui.model_combo /\ ~ui.transcribe_btn

\* the jobs whose start was accepted and whose terminal notification the
\* Shell has not finished handling
ActiveJobs ==
    {w \in Jobs : workers[w].pc \notin {"none", "gone"} /\ ~workers[w].handled}

\* the worker threads that are inside run()
Executing ==
    {w \in Jobs : workers[w].pc \in
        {"check", "load", "transcribe", "write", "emit_complete", "return"}}

Terminal(kind) == kind \in {"complete", "error"}

Kinds(w) == [i \in 1..Len(workers[w].emitted) |-> workers[w].emitted[i].kind]

Positions(w, kind) == {i \in 1..Len(workers[w].emitted) : Kinds(w)[i] = kind}

\* worker w posts a signal of this kind in the step
Emits(w, kind) ==
    /\ Len(queue') = Len(queue) + 1
    /\ queue'[Len(queue')].w = w
    /\ queue'[Len(queue')].kind = kind

\* C1: at most one Job is active at a time, and while one is active the start
\* control is disabled, so that no second WhisperWorker can be created
C1_AtMostOneActiveJob ==
    /\ Cardinality(ActiveJobs) <= 1
    /\ ActiveJobs # {} => (~ui.transcribe_btn /\ worker \in ActiveJobs)

\* a second job is running after the first one was handled
C1_Witness ==
    /\ workers[1].pc = "gone"
    /\ workers[2].pc = "transcribe"
    /\ ActiveJobs = {2}

\* C2: when start_transcription runs with an empty or missing path, it opens
\* the "Input Error" box and creates no worker; a step that creates a worker
\* starts from a path that is non-empty and exists
C2_InvalidPathRejected ==
    [][/\ (start_transcription
            /\ (path_input = EmptyPath \/ ~exists[path_input]))
          => /\ dialog'.kind = "warning"
             /\ workers' = workers
             /\ worker' = worker
             /\ queue' = queue
       /\ workers' # workers /\ njobs' > njobs
          => path_input # EmptyPath /\ exists[path_input]]_vars

\* the box is open over a path that was picked and then went missing
C2_Witness ==
    /\ dialog.kind = "warning"
    /\ path_input = SamplePath
    /\ ~exists[SamplePath]
    /\ worker = 0

\* the Shell finishes handling a terminal notification in this step
FinishesTerminal ==
    \/ /\ queue # <<>>
       /\ Head(queue).kind = "complete"
       /\ queue' = Tail(queue)
    \/ /\ dialog.kind = "critical"
       /\ dialog'.kind = "none"

\* C3: when the Shell has finished handling complete or error, the four input
\* controls are enabled and self.worker is None
C3_ReadyAfterTerminal ==
    [][FinishesTerminal => (AllEnabled /\ worker = 0)']_vars

\* the error of a file that went missing after validation has been handled
C3_Witness ==
    /\ status_label = <<"ERROR: ">> \o NotFoundMessage(SamplePath)
    /\ dialog.kind = "none"
    /\ AllEnabled
    /\ worker = 0
    /\ workers[1].pc \in {"return", "gone"}

\* C4 as stated: a terminal notification is always preceded by started and
\* progress, in that order
C4_Original ==
    \A w \in Jobs :
        \A t \in 1..Len(workers[w].emitted) :
            Terminal(Kinds(w)[t]) =>
                \E i, j \in 1..(t - 1) :
                    i < j /\ Kinds(w)[i] = "started" /\ Kinds(w)[j] = "progress"

\* C4, amended: the notifications of a run come in the order started,
\* progress, terminal; complete is preceded by both started and progress,
\* progress by started; error may come first or right after started
C4_OrderedNotifications ==
    \A w \in Jobs :
        LET rank(k) == CASE k = "started" -> 1 [] k = "progress" -> 2
                         [] OTHER -> 3
        IN  /\ \A i, j \in 1..Len(workers[w].emitted) :
                   i < j => rank(Kinds(w)[i]) < rank(Kinds(w)[j])
            /\ Positions(w, "complete") # {}
                   => Kinds(w) = <<"started", "progress", "complete">>
            /\ Positions(w, "progress") # {} => Positions(w, "started") # {}

\* a run has emitted all three, and it was the second job of the session
C4_Witness ==
    /\ Kinds(2) = <<"started", "progress", "complete">>
    /\ workers[2].pc = "finished"

\* C5: a run that is returning or has returned has emitted exactly one
\* terminal notification, as its last one, and a worker past its terminal
\* notification posts no further signal
C5_ExactlyOneTerminal ==
    /\ [](\A w \in Jobs :
             (workers[w].pc \in {"return", "finished"} /\ ~workers[w].handled)
             => /\ Cardinality(Positions(w, "complete")
                               \cup Positions(w, "error")) = 1
                /\ Terminal(Kinds(w)[Len(workers[w].emitted)]))
    /\ [][\A w \in Jobs :
             workers[w].pc \in {"return", "finished", "gone"}
             => ~(Emits(w, "started") \/ Emits(w, "progress")
                  \/ Emits(w, "complete") \/ Emits(w, "error"))]_vars

\* a run has returned after the not-found error, its only notification
C5_Witness ==
    /\ workers[1].pc = "finished"
    /\ Kinds(1) = <<"error">>

\* the name the transcript of SamplePath is to be saved under
C6_ExpectedName(model_name) ==
    <<"sample", "_", model_name, "_transcript.txt">>

\* C6: when a worker emits complete, the file <base>_<model>_transcript.txt
\* already exists and holds exactly the transcript the engine returned
C6_TranscriptSaved ==
    [][\A w \in Jobs :
          (Emits(w, "complete") /\ workers[w].audio_path = SamplePath)
          => LET name == C6_ExpectedName(workers[w].model_name)
             IN  /\ name \in DOMAIN files
                 /\ files[name] = [exists |-> TRUE, data |-> workers[w].text]
                 /\ files'[name] = files[name]]_vars

\* complete was emitted for (SamplePath, "medium") and the file is there
C6_Witness ==
    /\ \E w \in Jobs :
          /\ workers[w].model_name = "medium"
          /\ workers[w].text = "hello world"
          /\ Positions(w, "complete") # {}
    /\ files[<<"sample", "_", "medium", "_transcript.txt">>]
           = [exists |-> TRUE, data |-> "hello world"]

\* C7: a run in which load_model or transcribe raised has emitted, last, an
\* error whose message contains the exception's message, has emitted no
\* complete, and has written no file
C7_ExceptionReported ==
    \A w \in Jobs :
        workers[w].exc.stage \in {"load", "transcribe"}
        => LET n == Len(workers[w].emitted)
           IN  /\ n > 0
               /\ workers[w].emitted[n].kind = "error"
               /\ \E i \in 1..Len(workers[w].emitted[n].msg) :
                      workers[w].emitted[n].msg[i] = workers[w].exc.msg
               /\ Positions(w, "complete") = {}
               /\ ~workers[w].wrote

\* transcribe raised "disk full" and the run has returned
C7_Witness ==
    \E w \in Jobs :
        /\ workers[w].exc = [stage |-> "transcribe", msg |-> "disk full"]
        /\ workers[w].pc = "finished"

\* C8 as stated: at most one worker thread is inside run() at any time
C8_OneThreadExecuting == Cardinality(Executing) <= 1

Busy == worker # 0

\* C9 as stated: an accepted start leads to enabled input controls
C9_Original == Busy ~> AllEnabled

\* C9, amended: an accepted start leads to enabled input controls or to the
\* open "Transcription Error" box, which the user has to close
C9_BackToReady == Busy ~> (AllEnabled \/ dialog.kind = "critical")

\* a job has come and gone and the controls are enabled again
C9_Witness ==
    /\ workers[1].pc = "gone"
    /\ AllEnabled
    /\ ~Busy

\* C10: between handlers the four controls are all enabled or all disabled,
\* the progress bar is visible exactly when they are disabled, and
\* self.worker is set exactly when they are disabled
C10_IdleOrRunning ==
    dialog.kind = "none"
    => /\ AllEnabled \/ AllDisabled
       /\ ui.progress_bar <=> AllDisabled
       /\ worker # 0 <=> AllDisabled

\* the Running value: controls disabled, bar visible, worker set
C10_Witness ==
    /\ dialog.kind = "none"
    /\ AllDisabled
    /\ ui.progress_bar
    /\ worker = 2
====
